---- MODULE Spec2Model ----
(***************************************************************************)
(* Model of the two scripts of the repository.                             *)
(*                                                                         *)
(*   update_task_def.py  fetches an ECS task definition with the AWS CLI,  *)
(*                       strips the fields that cannot be registered,      *)
(*                       replaces GOOGLE_MAPS_API_KEY in the environment   *)
(*                       of the first container and writes                 *)
(*                       new_task_def.json.                                *)
(*   process_truck.py    converts an image to RGBA and makes its           *)
(*                       near-white pixels transparent.                    *)
(*                                                                         *)
(* JSON text is modelled by the value it denotes: an object is a function  *)
(* from its keys, a list is a sequence, and text that is not JSON is the   *)
(* value InvalidJson, on which json.loads raises.  An uncaught Python      *)
(* exception ends the process with exit status 1.                          *)
(***************************************************************************)
EXTENDS Integers, Sequences, FiniteSets, TLC

\* ---------------------------------------------------------------------
\* Bounds of the model
\* ---------------------------------------------------------------------
MaxEnv == 2        \* longest environment list of the first container
MaxRuns == 2       \* runs of the updater / of the converter in a row
MaxPixels == 2     \* largest image, in pixels (width * height)

\* ---------------------------------------------------------------------
\* update_task_def.py
\* ---------------------------------------------------------------------
VARIABLES
    TASK_DEF_ARN,   \* os.getenv("TASK_DEF_ARN", "")
    API_KEY,        \* os.getenv("GOOGLE_MAPS_API_KEY", "")
    AWS_REGION,     \* os.getenv("AWS_REGION", "ap-south-1")
    aws,            \* what the AWS CLI answers: [returncode, stdout]
    pc,             \* position of the script
    json_output,    \* stdout returned by run_command
    task_def,       \* data['taskDefinition'], edited in place
    env_vars,       \* the local env_vars
    file,           \* new_task_def.json in the working directory
    out,            \* lines printed so far in this run
    invoked,        \* commands handed to subprocess.run in this run
    exitStatus,     \* exit status of the process, NotExited while it runs
    outcome,        \* how the run ended
    written,        \* this run opened new_task_def.json for writing
    fileAtStart,    \* new_task_def.json when this run started
    prev,           \* inputs and outcome of the previous run
    runNo           \* number of the current run

uvars == <<TASK_DEF_ARN, API_KEY, AWS_REGION, aws, pc, json_output, task_def,
           env_vars, file, out, invoked, exitStatus, outcome, written,
           fileAtStart, prev, runNo>>

\* ---------------------------------------------------------------------
\* process_truck.py
\* ---------------------------------------------------------------------
VARIABLES
    inFile,         \* the image file that Image.open reads
    outFile,        \* the image file that img.save writes
    img,            \* the image in memory: [mode, width, height, px]
    ipc,            \* position of the script
    x, y,           \* the loop variables
    irun,           \* number of the current run
    rgbaIn          \* the image right after convert('RGBA'), before the loop

ivars == <<inFile, outFile, img, ipc, x, y, irun, rgbaIn>>

vars == <<uvars, ivars>>

\* ---------------------------------------------------------------------
\* JSON values and the inputs of the updater
\* ---------------------------------------------------------------------
KeyName == "GOOGLE_MAPS_API_KEY"

DefaultRegion == "ap-south-1"

\* os.getenv(name, default): the variable's value, or the default when unset
Getenv(environ, name, default) ==
    IF name \in DOMAIN environ THEN environ[name] ELSE default

\* dict.get(key, default)
Get(obj, key, default) == IF key \in DOMAIN obj THEN obj[key] ELSE default

\* del obj[key]
Del(obj, key) == [k \in DOMAIN obj \ {key} |-> obj[k]]

\* obj[key] = value
SetKey(obj, key, value) ==
    [k \in DOMAIN obj \cup {key} |-> IF k = key THEN value ELSE obj[k]]

InvalidJson == [json |-> FALSE]

JsonText(v) == [json |-> TRUE, value |-> v]

SeqsUpTo(S, n) == UNION {[1..k -> S] : k \in 0..n}

\* environment entries: the key with the value a run may provide or another
\* one, an unrelated variable, and an entry that has no name
EnvEntries ==
    {[name |-> KeyName, value |-> v] : v \in {"k1", "k2"}}
        \cup {[name |-> "PORT", value |-> "8080"], [value |-> "8080"]}

App == [name |-> "app", image |-> "weelo:1"]

Sidecar ==
    [name |-> "sidecar", image |-> "proxy:1",
     environment |-> <<[name |-> KeyName, value |-> "k2"]>>]

FirstContainers ==
    {App} \cup {SetKey(App, "environment", e) : e \in SeqsUpTo(EnvEntries, MaxEnv)}

ContainerLists ==
    {<<>>} \cup {<<c>> : c \in FirstContainers}
           \cup {<<c, Sidecar>> : c \in FirstContainers}

\* the fields of a described task definition that the service assigns
MetaKeys ==
    {"taskDefinitionArn", "revision", "status", "requiresAttributes",
     "compatibilities", "registeredAt", "registeredBy"}

MetaSets == {{}, MetaKeys} \cup {{k} : k \in MetaKeys}

TaskDefOf(meta, hasContainers, cds) ==
    [k \in {"family"} \cup meta
            \cup (IF hasContainers THEN {"containerDefinitions"} ELSE {}) |->
        IF k = "containerDefinitions" THEN cds
        ELSE IF k = "family" THEN "weelo-backend"
        ELSE "assigned"]

TaskDefs ==
    {TaskDefOf(m, TRUE, cds) : m \in MetaSets, cds \in ContainerLists}
        \cup {TaskDefOf(m, FALSE, <<>>) : m \in MetaSets}

\* what the CLI may print on its standard output
Stdouts ==
    {InvalidJson, JsonText([failures |-> "MISSING"])}
        \cup {JsonText([taskDefinition |-> td]) : td \in TaskDefs}

SampleStdout ==
    JsonText([taskDefinition |->
        TaskDefOf(MetaKeys, TRUE,
                  <<SetKey(App, "environment",
                           <<[name |-> KeyName, value |-> "k2"]>>)>>)])

AwsAnswers ==
    {[returncode |-> 0, stdout |-> s] : s \in Stdouts}
        \cup {[returncode |-> 254, stdout |-> s] : s \in {InvalidJson, SampleStdout}}

Arns == {"", "arn:aws:ecs:task-definition/weelo:7"}

ApiKeys == {"", "k1", "k2"}

Environs ==
    {[TASK_DEF_ARN |-> a, GOOGLE_MAPS_API_KEY |-> k] : a \in Arns, k \in ApiKeys}
        \cup {[GOOGLE_MAPS_API_KEY |-> "k1"],
              [TASK_DEF_ARN |-> "arn:aws:ecs:task-definition/weelo:7"],
              [TASK_DEF_ARN |-> "arn:aws:ecs:task-definition/weelo:7",
               GOOGLE_MAPS_API_KEY |-> "k1", AWS_REGION |-> "us-east-1"]}

NoFile == [exists |-> FALSE]

FileOf(content) == [exists |-> TRUE, content |-> content]

StaleFile == FileOf([family |-> "stale"])

Unset == <<>>

\* ---------------------------------------------------------------------
\* The steps of update_task_def.py
\* ---------------------------------------------------------------------
\* registeredBy left out of the list
keys_to_remove_short ==
    <<"taskDefinitionArn", "revision", "status", "requiresAttributes",
      "compatibilities", "registeredAt">>

keys_to_remove ==
    <<"taskDefinitionArn", "revision", "status", "requiresAttributes",
      "compatibilities", "registeredAt", "registeredBy">>

RECURSIVE RemoveKeys(_, _)
\* for key in keys: if key in task_def: del task_def[key]
RemoveKeys(obj, keys) ==
    IF keys = <<>> THEN obj
    ELSE RemoveKeys(IF Head(keys) \in DOMAIN obj THEN Del(obj, Head(keys)) ELSE obj,
                    Tail(keys))

\* e['name'] raises KeyError on an entry that has no name
FilterRaises(env) == \E i \in 1..Len(env) : "name" \notin DOMAIN env[i]

\* the filter left out
FilterEnv_Keep(env) == env

\* the filter drops the first matching entry only
FilterEnv_FirstOnly(env) ==
    LET hits == {i \in 1..Len(env) : env[i].name = KeyName}
    IN  IF hits = {} THEN env
        ELSE LET first == CHOOSE i \in hits : \A j \in hits : i <= j
             IN  SubSeq(env, 1, first - 1) \o SubSeq(env, first + 1, Len(env))

\* [e for e in env_vars if e['name'] != 'GOOGLE_MAPS_API_KEY']
FilterEnv(env) == SelectSeq(env, LAMBDA e : e.name # KeyName)

\* env_vars.append({'name': 'GOOGLE_MAPS_API_KEY', 'value': API_KEY})
AppendKey(env, value) == Append(env, [name |-> KeyName, value |-> value])

\* the environment list is set on every container
SetFirstEnvironment_Every(td, env) ==
    [td EXCEPT !["containerDefinitions"] =
        [i \in 1..Len(@) |-> SetKey(@[i], "environment", env)]]

\* container = container_defs[0]; container['environment'] = env_vars
SetFirstEnvironment(td, env) ==
    [td EXCEPT !["containerDefinitions"][1] = SetKey(@, "environment", env)]

\* the command line handed to the shell
Command(arn, region) ==
    <<"aws ecs describe-task-definition", "--task-definition", arn,
      "--region", region>>

\* sys.exit() without a status
Fail_ExitZero(how, lines) ==
    /\ pc' = "exited"
    /\ exitStatus' = 0
    /\ outcome' = how
    /\ out' = out \o lines

\* sys.exit(1), or an uncaught exception
Fail(how, lines) ==
    /\ pc' = "exited"
    /\ exitStatus' = 1
    /\ outcome' = how
    /\ out' = out \o lines

ValidateArn ==
    /\ pc = "validate_arn"
    /\ IF TASK_DEF_ARN = ""
       THEN Fail("missing_input", <<"Fetching task definition", "TASK_DEF_ARN is required">>)
       ELSE /\ pc' = "validate_key"
            /\ out' = Append(out, "Fetching task definition")
            /\ UNCHANGED <<exitStatus, outcome>>
    /\ UNCHANGED <<ivars, TASK_DEF_ARN, API_KEY, AWS_REGION, aws, json_output, task_def,
                   env_vars, file, invoked, written, fileAtStart, prev, runNo>>

\* the key is not validated
ValidateKey_NoCheck ==
    /\ pc = "validate_key"
    /\ pc' = "run_command"
    /\ UNCHANGED <<ivars, TASK_DEF_ARN, API_KEY, AWS_REGION, aws, json_output,
                   task_def, env_vars, file, invoked, written, fileAtStart,
                   prev, runNo, exitStatus, outcome, out>>

ValidateKey ==
    /\ pc = "validate_key"
    /\ IF API_KEY = ""
       THEN Fail("missing_input", <<"GOOGLE_MAPS_API_KEY is required">>)
       ELSE /\ pc' = "run_command"
            /\ UNCHANGED <<exitStatus, outcome, out>>
    /\ UNCHANGED <<ivars, TASK_DEF_ARN, API_KEY, AWS_REGION, aws, json_output, task_def,
                   env_vars, file, invoked, written, fileAtStart, prev, runNo>>

\* the return code is not looked at
RunCommand_NoCheck ==
    /\ pc = "run_command"
    /\ invoked' = Append(invoked, Command(TASK_DEF_ARN, AWS_REGION))
    /\ json_output' = aws.stdout
    /\ pc' = "parse"
    /\ UNCHANGED <<ivars, TASK_DEF_ARN, API_KEY, AWS_REGION, aws, task_def,
                   env_vars, file, written, fileAtStart, prev, runNo,
                   exitStatus, outcome, out>>

RunCommand ==
    /\ pc = "run_command"
    /\ invoked' = Append(invoked, Command(TASK_DEF_ARN, AWS_REGION))
    /\ IF aws.returncode # 0
       THEN /\ Fail("command_failure", <<"Error running command", "stderr">>)
            /\ UNCHANGED json_output
       ELSE /\ json_output' = aws.stdout
            /\ pc' = "parse"
            /\ UNCHANGED <<exitStatus, outcome, out>>
    /\ UNCHANGED <<ivars, TASK_DEF_ARN, API_KEY, AWS_REGION, aws, task_def, env_vars,
                   file, written, fileAtStart, prev, runNo>>

\* data = json.loads(json_output); task_def = data['taskDefinition']
Parse ==
    /\ pc = "parse"
    /\ IF ~json_output.json
       THEN /\ Fail("exception", <<"JSONDecodeError">>)
            /\ UNCHANGED task_def
       ELSE IF "taskDefinition" \notin DOMAIN json_output.value
       THEN /\ Fail("exception", <<"KeyError">>)
            /\ UNCHANGED task_def
       ELSE /\ task_def' = json_output.value["taskDefinition"]
            /\ pc' = "clean"
            /\ UNCHANGED <<exitStatus, outcome, out>>
    /\ UNCHANGED <<ivars, TASK_DEF_ARN, API_KEY, AWS_REGION, aws, json_output, env_vars,
                   file, invoked, written, fileAtStart, prev, runNo>>

Clean ==
    /\ pc = "clean"
    /\ task_def' = RemoveKeys(task_def, keys_to_remove)
    /\ pc' = "containers"
    /\ UNCHANGED <<ivars, TASK_DEF_ARN, API_KEY, AWS_REGION, aws, json_output, env_vars,
                   file, out, invoked, exitStatus, outcome, written, fileAtStart,
                   prev, runNo>>

\* only a missing containerDefinitions is refused, not an empty list
CheckContainers_AbsentOnly ==
    /\ pc = "containers"
    /\ IF "containerDefinitions" \notin DOMAIN task_def
       THEN Fail("no_containers", <<"No container definitions found!">>)
       ELSE /\ pc' = "environment"
            /\ UNCHANGED <<exitStatus, outcome, out>>
    /\ UNCHANGED <<ivars, TASK_DEF_ARN, API_KEY, AWS_REGION, aws, json_output,
                   task_def, env_vars, file, invoked, written, fileAtStart,
                   prev, runNo>>

CheckContainers ==
    /\ pc = "containers"
    /\ IF Get(task_def, "containerDefinitions", <<>>) = <<>>
       THEN Fail("no_containers", <<"No container definitions found!">>)
       ELSE /\ pc' = "environment"
            /\ UNCHANGED <<exitStatus, outcome, out>>
    /\ UNCHANGED <<ivars, TASK_DEF_ARN, API_KEY, AWS_REGION, aws, json_output, task_def,
                   env_vars, file, invoked, written, fileAtStart, prev, runNo>>

UpdateEnvironment ==
    /\ pc = "environment"
    /\ LET container == task_def["containerDefinitions"][1]
           env == Get(container, "environment", <<>>)
       IN  IF FilterRaises(env)
           THEN /\ Fail("exception", <<"KeyError">>)
                /\ UNCHANGED <<task_def, env_vars>>
           ELSE /\ env_vars' = AppendKey(FilterEnv(env), API_KEY)
                /\ task_def' = SetFirstEnvironment(task_def, env_vars')
                /\ out' = Append(out, "Injecting GOOGLE_MAPS_API_KEY...")
                /\ pc' = "save"
                /\ UNCHANGED <<exitStatus, outcome>>
    /\ UNCHANGED <<ivars, TASK_DEF_ARN, API_KEY, AWS_REGION, aws, json_output, file,
                   invoked, written, fileAtStart, prev, runNo>>

\* open('new_task_def.json', 'w') and json.dump: the file is replaced
WriteFile(old, content) == FileOf(content)

Save ==
    /\ pc = "save"
    /\ file' = WriteFile(file, task_def)
    /\ written' = TRUE
    /\ out' = Append(out, "Created new_task_def.json successfully.")
    /\ pc' = "exited"
    /\ exitStatus' = 0
    /\ outcome' = "success"
    /\ UNCHANGED <<ivars, TASK_DEF_ARN, API_KEY, AWS_REGION, aws, json_output, task_def,
                   env_vars, invoked, fileAtStart, prev, runNo>>

\* the script is started again: same identifier, region and CLI answer, any key
Rerun ==
    /\ pc = "exited"
    /\ runNo < MaxRuns
    /\ \E k \in ApiKeys : API_KEY' = k
    /\ prev' = [arn |-> TASK_DEF_ARN, key |-> API_KEY, region |-> AWS_REGION,
                aws |-> aws, outcome |-> outcome]
    /\ runNo' = runNo + 1
    /\ fileAtStart' = file
    /\ pc' = "validate_arn"
    /\ json_output' = Unset
    /\ task_def' = Unset
    /\ env_vars' = Unset
    /\ out' = <<>>
    /\ invoked' = <<>>
    /\ exitStatus' = 0
    /\ outcome' = "running"
    /\ written' = FALSE
    /\ UNCHANGED <<ivars, TASK_DEF_ARN, AWS_REGION, aws, file>>

UInit ==
    /\ \E e \in Environs :
        /\ TASK_DEF_ARN = Getenv(e, "TASK_DEF_ARN", "")
        /\ API_KEY = Getenv(e, "GOOGLE_MAPS_API_KEY", "")
        /\ AWS_REGION = Getenv(e, "AWS_REGION", DefaultRegion)
    /\ aws \in AwsAnswers
    /\ file \in {NoFile, StaleFile}
    /\ fileAtStart = file
    /\ pc = "validate_arn"
    /\ json_output = Unset
    /\ task_def = Unset
    /\ env_vars = Unset
    /\ out = <<>>
    /\ invoked = <<>>
    /\ exitStatus = 0
    /\ outcome = "running"
    /\ written = FALSE
    /\ prev = [outcome |-> "none"]
    /\ runNo = 1

UNext ==
    \/ ValidateArn
    \/ ValidateKey
    \/ RunCommand
    \/ Parse
    \/ Clean
    \/ CheckContainers
    \/ UpdateEnvironment
    \/ Save
    \/ Rerun

\* ---------------------------------------------------------------------
\* The steps of process_truck.py
\* ---------------------------------------------------------------------
Threshold == 230

\* channel values on both sides of the threshold, and the two extremes
Levels == {Threshold, Threshold + 1}

Alphas == {0, 255}

PixelsOf(mode) ==
    IF mode = "L" THEN {<<l>> : l \in Levels \cup {0, 255}}
    ELSE IF mode = "RGB"
    THEN {<<r, g, b>> : r \in Levels, g \in Levels, b \in Levels}
             \cup {<<0, 0, 0>>, <<255, 255, 255>>}
    ELSE {<<r, g, b, a>> : r \in Levels, g \in Levels, b \in Levels, a \in Alphas}
             \cup {<<0, 0, 0, a>> : a \in Alphas}
             \cup {<<255, 255, 255, a>> : a \in Alphas}

Sizes ==
    {s \in (1..MaxPixels) \X (1..MaxPixels) : s[1] * s[2] <= MaxPixels}

Coords(size) == (0..(size[1] - 1)) \X (0..(size[2] - 1))

Images ==
    UNION {[mode : {m}, size : {s}, px : [Coords(s) -> PixelsOf(m)]] :
              m \in {"L", "RGB", "RGBA"}, s \in Sizes}

NoImage == [exists |-> FALSE]

ImageFile(image) == [exists |-> TRUE, image |-> image]

\* one pixel of img.convert('RGBA'): grey is copied to the three colour
\* channels, and a mode without alpha becomes opaque
ToRGBA(mode, p) ==
    IF mode = "L" THEN <<p[1], p[1], p[1], 255>>
    ELSE IF mode = "RGB" THEN <<p[1], p[2], p[3], 255>>
    ELSE p

\* img.convert('RGBA')
Convert(image) ==
    [mode |-> "RGBA", size |-> image.size,
     px |-> [c \in Coords(image.size) |-> ToRGBA(image.mode, image.px[c])]]

\* >= in place of >
PixelRule_AtLeast(p) ==
    IF p[1] >= Threshold /\ p[2] >= Threshold /\ p[3] >= Threshold
    THEN <<p[1], p[2], p[3], 0>>
    ELSE p

\* alpha inverted in place of zeroed
PixelRule_InvertAlpha(p) ==
    IF p[1] > Threshold /\ p[2] > Threshold /\ p[3] > Threshold
    THEN <<p[1], p[2], p[3], 255 - p[4]>>
    ELSE p

\* the body of the loop, for the pixel (r, g, b, a)
PixelRule(p) ==
    IF p[1] > Threshold /\ p[2] > Threshold /\ p[3] > Threshold
    THEN <<p[1], p[2], p[3], 0>>
    ELSE p

\* Image.open: FileNotFoundError when the file does not exist
Open ==
    /\ ipc = "open"
    /\ IF inFile.exists
       THEN /\ img' = inFile.image
            /\ ipc' = "convert"
       ELSE /\ ipc' = "crashed"
            /\ UNCHANGED img
    /\ UNCHANGED <<uvars, inFile, outFile, x, y, irun, rgbaIn>>

\* img = img.convert('RGBA'); pixels = img.load(); width, height = img.size
ConvertRGBA ==
    /\ ipc = "convert"
    /\ img' = Convert(img)
    /\ rgbaIn' = img'
    /\ x' = 0
    /\ y' = 0
    /\ ipc' = "loop"
    /\ UNCHANGED <<uvars, inFile, outFile, irun>>

\* one iteration of the inner loop, at pixels[x, y]
Pixel ==
    /\ ipc = "loop"
    /\ img' = [img EXCEPT !.px[<<x, y>>] = PixelRule(@)]
    /\ IF x + 1 < img.size[1]
       THEN /\ x' = x + 1
            /\ UNCHANGED <<y, ipc>>
       ELSE /\ x' = 0
            /\ y' = y + 1
            /\ ipc' = IF y + 1 < img.size[2] THEN "loop" ELSE "save"
    /\ UNCHANGED <<uvars, inFile, outFile, irun, rgbaIn>>

\* img.save(..., 'PNG')
SaveImage ==
    /\ ipc = "save"
    /\ outFile' = ImageFile(img)
    /\ ipc' = "done"
    /\ UNCHANGED <<uvars, inFile, img, x, y, irun, rgbaIn>>

\* the converter is run again, on the file it wrote
RerunOnOutput ==
    /\ ipc = "done"
    /\ irun < MaxRuns
    /\ inFile' = outFile
    /\ irun' = irun + 1
    /\ ipc' = "open"
    /\ UNCHANGED <<uvars, outFile, img, x, y, rgbaIn>>

NoImg == [mode |-> "none", size |-> <<0, 0>>, px |-> <<>>]

IInit ==
    /\ inFile \in {NoImage} \cup {ImageFile(i) : i \in Images}
    /\ outFile = NoImage
    /\ img = NoImg
    /\ rgbaIn = NoImg
    /\ ipc = "open"
    /\ x = 0
    /\ y = 0
    /\ irun = 1

\* ---------------------------------------------------------------------
\* The two specifications
\* ---------------------------------------------------------------------
UIdle ==
    /\ TASK_DEF_ARN = ""
    /\ API_KEY = ""
    /\ AWS_REGION = DefaultRegion
    /\ aws = [returncode |-> 0, stdout |-> InvalidJson]
    /\ file = NoFile
    /\ fileAtStart = NoFile
    /\ pc = "idle"
    /\ json_output = Unset
    /\ task_def = Unset
    /\ env_vars = Unset
    /\ out = <<>>
    /\ invoked = <<>>
    /\ exitStatus = 0
    /\ outcome = "running"
    /\ written = FALSE
    /\ prev = [outcome |-> "none"]
    /\ runNo = 1

IIdle ==
    /\ inFile = NoImage
    /\ outFile = NoImage
    /\ img = NoImg
    /\ rgbaIn = NoImg
    /\ ipc = "idle"
    /\ x = 0
    /\ y = 0
    /\ irun = 1

Init == UInit /\ IIdle

Next == UNext

Spec == Init /\ [][Next]_vars

ImgInit == UIdle /\ IInit

ImgNext ==
    \/ Open
    \/ ConvertRGBA
    \/ Pixel
    \/ SaveImage
    \/ RerunOnOutput

ImgSpec == ImgInit /\ [][ImgNext]_vars

\* ---------------------------------------------------------------------
\* Properties of update_task_def.py
\* ---------------------------------------------------------------------
Succeeded == pc = "exited" /\ outcome = "success"

\* the CLI's standard output is a JSON object with a taskDefinition
AnswerHasTaskDef ==
    /\ aws.stdout.json
    /\ "taskDefinition" \in DOMAIN aws.stdout.value

AnswerTaskDef == aws.stdout.value["taskDefinition"]

\* the environment list of the first container, empty when it has none
FirstEnv(td) == Get(td["containerDefinitions"][1], "environment", <<>>)

KeyCount(env) == Cardinality({i \in 1..Len(env) : env[i].name = KeyName})

\* C1: after a successful run the environment list of the first container in
\* new_task_def.json has exactly one entry named GOOGLE_MAPS_API_KEY, and its
\* value is the provided key, however many such entries the fetched list had
\* and also when the first container had no environment list.
C1_ExactlyOneKey ==
    Succeeded =>
        LET env == file.content["containerDefinitions"][1]["environment"]
        IN  /\ API_KEY # ""
            /\ AnswerTaskDef["containerDefinitions"] # <<>>
            /\ KeyCount(env) = 1
            /\ \A i \in 1..Len(env) :
                   env[i].name = KeyName => env[i].value = API_KEY

C1_Witness_SeveralKeys ==
    /\ Succeeded
    /\ KeyCount(FirstEnv(AnswerTaskDef)) >= 2
    /\ \E i \in 1..Len(FirstEnv(AnswerTaskDef)) :
           FirstEnv(AnswerTaskDef)[i].value # API_KEY

\* the seven fields the claim lists: arn, revision, status, required
\* attributes, compatibilities, registration timestamp, registration actor
ListedMetadata ==
    {"taskDefinitionArn", "revision", "status", "requiresAttributes",
     "compatibilities", "registeredAt", "registeredBy"}

\* C3 as stated: the updater deletes nine metadata fields, and none of them is
\* a top-level key of the written task definition.
C3_NineFieldsAbsent ==
    written =>
        /\ Len(keys_to_remove) = 9
        /\ \A k \in ListedMetadata : k \notin DOMAIN file.content

\* C3 as amended: the updater deletes seven metadata fields (the seven the
\* claim lists), and none of them is a top-level key of the written task
\* definition.
C3_SevenFieldsAbsent ==
    written =>
        /\ Len(keys_to_remove) = 7
        /\ {keys_to_remove[i] : i \in 1..Len(keys_to_remove)} = ListedMetadata
        /\ \A k \in ListedMetadata : k \notin DOMAIN file.content

C3_Witness_AllPresent ==
    /\ Succeeded
    /\ ListedMetadata \subseteq DOMAIN AnswerTaskDef

\* C4: with an empty TASK_DEF_ARN or an empty GOOGLE_MAPS_API_KEY the run
\* never gets past the two validations, never invokes the external command,
\* and can only end with exit status 1; the identifier is checked first, so
\* with both empty the line printed is the one about TASK_DEF_ARN.
C4_ValidationBeforeCommand ==
    (TASK_DEF_ARN = "" \/ API_KEY = "") =>
        /\ invoked = <<>>
        /\ pc \in {"validate_arn", "validate_key", "exited"}
        /\ pc = "exited" =>
              /\ exitStatus = 1
              /\ outcome = "missing_input"
              /\ out[Len(out)] =
                    IF TASK_DEF_ARN = "" THEN "TASK_DEF_ARN is required"
                    ELSE "GOOGLE_MAPS_API_KEY is required"
              /\ TASK_DEF_ARN = "" =>
                    \A i \in 1..Len(out) : out[i] # "GOOGLE_MAPS_API_KEY is required"

C4_Witness_BothEmpty ==
    /\ pc = "exited"
    /\ TASK_DEF_ARN = ""
    /\ API_KEY = ""
    /\ aws.returncode = 0

\* the run fetches a task definition without container definitions
FetchesNoContainers ==
    /\ TASK_DEF_ARN # ""
    /\ API_KEY # ""
    /\ aws.returncode = 0
    /\ AnswerHasTaskDef
    /\ Get(AnswerTaskDef, "containerDefinitions", <<>>) = <<>>

\* C5: when the fetched task definition has an empty containerDefinitions
\* list, or none, the run never reaches the environment update or the write,
\* new_task_def.json stays as it was when the run started, and the run can
\* only end with exit status 1.
C5_NoContainersNoFile ==
    FetchesNoContainers =>
        /\ pc \notin {"environment", "save"}
        /\ ~written
        /\ file = fileAtStart
        /\ pc = "exited" => exitStatus = 1 /\ outcome = "no_containers"

C5_Witness_FileKept ==
    /\ FetchesNoContainers
    /\ pc = "exited"
    /\ fileAtStart.exists
    /\ "containerDefinitions" \in DOMAIN AnswerTaskDef

\* C6: when the external command returns a non-zero code the run ends at
\* once with exit status 1: the output is not parsed, no task definition is
\* edited, no file is written, and the command is invoked once only.
C6_CommandFailureIsFatal ==
    aws.returncode # 0 =>
        /\ pc \in {"validate_arn", "validate_key", "run_command", "exited"}
        /\ json_output = Unset
        /\ task_def = Unset
        /\ ~written
        /\ file = fileAtStart
        /\ Len(invoked) <= 1
        /\ (pc = "exited" /\ TASK_DEF_ARN # "" /\ API_KEY # "") =>
              /\ exitStatus = 1
              /\ outcome = "command_failure"
              /\ Len(invoked) = 1

C6_Witness_ValidOutputIgnored ==
    /\ pc = "exited"
    /\ outcome = "command_failure"
    /\ aws.stdout = SampleStdout

\* the run passes the three checks: both inputs are there, the command
\* succeeds, and the fetched task definition has container definitions
PassesThreeChecks ==
    /\ TASK_DEF_ARN # ""
    /\ API_KEY # ""
    /\ aws.returncode = 0
    /\ AnswerHasTaskDef
    /\ Get(AnswerTaskDef, "containerDefinitions", <<>>) # <<>>

\* what holds of every run: nothing is written before the end, the file is
\* written exactly when the exit status is 0, and a run that does not succeed
\* exits with 1 and leaves the file as it was
WrittenIffExitZero ==
    /\ pc # "exited" => outcome = "running" /\ file = fileAtStart
    /\ pc \notin {"exited", "idle"} /\ pc # "save" => ~written
    /\ pc = "exited" =>
          /\ exitStatus \in {0, 1}
          /\ written <=> exitStatus = 0
          /\ outcome = "success" <=> exitStatus = 0
          /\ outcome # "success" => file = fileAtStart
          /\ outcome = "success" => file = FileOf(task_def)

\* C7 as stated: the file is written exactly when the run exits with 0, the
\* three kinds of failure exit with 1 and write nothing, and every run that
\* passes the three checks writes the file and exits with 0.
C7_ThreeChecksThenSuccess ==
    /\ WrittenIffExitZero
    /\ (pc = "exited" /\ PassesThreeChecks) => outcome = "success"

\* C7 as amended: the file is written exactly when the run exits with 0,
\* every run that does not succeed exits with 1 and writes nothing, and a
\* run that passes the three checks either writes the file and exits with 0
\* or, when an entry of the first container's environment list has no name,
\* is ended by the uncaught KeyError with exit status 1 before the file is
\* opened.
C7_SuccessOrException ==
    /\ WrittenIffExitZero
    /\ pc = "exited" =>
          outcome \in {"missing_input", "command_failure", "no_containers",
                       "exception", "success"}
    /\ (pc = "exited" /\ PassesThreeChecks) =>
          IF FilterRaises(FirstEnv(AnswerTaskDef))
          THEN outcome = "exception" /\ exitStatus = 1 /\ ~written
          ELSE outcome = "success"

C7_Witness_ExceptionAfterChecks ==
    /\ pc = "exited"
    /\ PassesThreeChecks
    /\ outcome = "exception"
    /\ fileAtStart.exists

\* the edit steps of the script on a task definition that has containers
EditSteps(td, key) ==
    LET cleaned == RemoveKeys(td, keys_to_remove)
    IN  SetFirstEnvironment(cleaned, AppendKey(FilterEnv(FirstEnv(cleaned)), key))

\* C9: a successful run that follows a successful run with the same
\* identifier, key, region and command output leaves in new_task_def.json
\* the content the first run wrote; and the edit steps applied, with the same
\* key, to the task definition a successful run wrote give that same task
\* definition.
C9_Idempotent ==
    Succeeded =>
        /\ (/\ runNo >= 2
            /\ prev.outcome = "success"
            /\ prev.arn = TASK_DEF_ARN
            /\ prev.key = API_KEY
            /\ prev.region = AWS_REGION
            /\ prev.aws = aws) => file = fileAtStart
        /\ EditSteps(file.content, API_KEY) = file.content

C9_Witness_SecondRunSameInputs ==
    /\ Succeeded
    /\ runNo >= 2
    /\ prev.outcome = "success"
    /\ prev.key = API_KEY
    /\ KeyCount(FirstEnv(AnswerTaskDef)) >= 1
    /\ AnswerTaskDef # file.content

NearWhite(p) == p[1] > 230 /\ p[2] > 230 /\ p[3] > 230

\* C2: once the loop is over, and in the saved file, every pixel whose R, G
\* and B all exceeded 230 after the RGBA conversion has alpha 0, and every
\* other pixel, also one with a channel at exactly 230, has its four channels
\* as converted.
C2_PixelRule ==
    ipc \in {"save", "done"} =>
        /\ img.size = rgbaIn.size
        /\ ipc = "done" => outFile = ImageFile(img)
        /\ \A c \in Coords(rgbaIn.size) :
               IF NearWhite(rgbaIn.px[c])
               THEN img.px[c][4] = 0
               ELSE img.px[c] = rgbaIn.px[c]

C2_Witness_ExactThreshold ==
    /\ ipc = "done"
    /\ \E c \in Coords(rgbaIn.size) :
           rgbaIn.px[c] = <<230, 231, 231, 255>>
    /\ \E c \in Coords(rgbaIn.size) :
           NearWhite(rgbaIn.px[c]) /\ rgbaIn.px[c][4] = 255

\* C8: a run of the converter on the file the previous run wrote saves that
\* same image again; in particular a pixel that had alpha 0 keeps alpha 0
\* and its R, G and B.
C8_RerunIsIdempotent ==
    (irun >= 2 /\ ipc = "done") =>
        /\ outFile = inFile
        /\ \A c \in Coords(img.size) :
               inFile.image.px[c][4] = 0 => img.px[c] = inFile.image.px[c]

C8_Witness_TransparentWhite ==
    /\ irun >= 2
    /\ ipc = "done"
    /\ \E c \in Coords(img.size) :
           NearWhite(inFile.image.px[c]) /\ inFile.image.px[c][4] = 0
    /\ \E c \in Coords(img.size) : inFile.image.px[c][4] = 255

====
